---- MODULE Spec2Model ----
(***************************************************************************)
(* Model of VLLMServerManager (src/vllm_server_manager.py): a supervisor   *)
(* that owns one child-process handle and one port, with the operations    *)
(* start_server, wait_for_health and terminate.  The caller is sequential; *)
(* the only concurrency is the child process, which may exit on its own at *)
(* any moment.  The blocking operations are modelled step by step so that  *)
(* the child's exit can interleave with them.                              *)
(*                                                                         *)
(* Time is counted in whole seconds as the time elapsed since the running  *)
(* wait_for_health call read the clock for its deadline.                   *)
(***************************************************************************)
EXTENDS Integers, Sequences, FiniteSets

(* ---------------------------- bounds ----------------------------------- *)
MaxSpawns == 2              \* children spawned in one behaviour
MaxTimeout == 5             \* largest timeout argument of wait_for_health
MaxReady == 2               \* largest number of not-ready polls of an endpoint
MaxJitter == 1              \* seconds time.sleep may oversleep

(* ------------------------ program constants ---------------------------- *)
None == 0                   \* Python None, for the handle and for the port
RequestTimeout == 2         \* requests.get(url, timeout=2)
PollInterval == 2           \* time.sleep(2)
Never == 0 - 1              \* an endpoint that never answers 200

Ports == {8000, 8001}
Timeouts == (0 - 1) .. MaxTimeout
ReadyAfter == (0 .. MaxReady) \cup {Never}
Torch == {"absent", "cpu", "cuda"}

VARIABLES
    process,        \* self._process: None or the index of a child in children
    port,           \* self._port: None or a port number
    children,       \* every process spawned so far, in spawn order
    pc,             \* position of the caller inside the running operation
    last,           \* the operation that returned last, and how it ended
    argPort,        \* start_server's port argument
    timeout,        \* wait_for_health's timeout argument
    url,            \* port the health URL of the running wait_for_health names
    elapsed,        \* seconds since wait_for_health computed its deadline
    nreq,           \* health requests issued by this wait_for_health
    resp,           \* outcome of its latest health request
    nsleep,         \* sleeps of this wait_for_health
    readyAfter,     \* the endpoint: polls it fails before it answers 200
    torch,          \* the accelerator runtime of this interpreter
    vram,           \* what the _free_vram of this terminate released
    nfree,          \* _free_vram calls of this terminate
    everStarted,    \* start_server has run at least once
    startedSince    \* start_server has run since the last terminate call

vars == <<process, port, children, pc, last, argPort, timeout, url, elapsed,
          nreq, resp, nsleep, readyAfter, torch, vram, nfree, everStarted, startedSince>>

waitVars == <<timeout, url, elapsed, nreq, resp, nsleep, readyAfter>>

(* ----------------------------- helpers --------------------------------- *)
\* self._process.poll() is None: the tracked child has not exited
Poll(h) == children[h].alive

Ret(op, res) == [op |-> op, res |-> res]

NewChild(p) == [alive |-> TRUE, port |-> p, sigterm |-> 0, sigkill |-> 0]

\* the locals of wait_for_health before a call and after its frame is gone
NoWait ==
    /\ timeout = 0
    /\ url = None
    /\ elapsed = 0
    /\ nreq = 0
    /\ resp = "none"
    /\ nsleep = 0
    /\ readyAfter = Never

Init ==
    /\ process = None
    /\ port = None
    /\ children = <<>>
    /\ pc = "idle"
    /\ last = Ret("none", "none")
    /\ argPort = None
    /\ NoWait
    /\ torch \in Torch
    /\ vram = "none"
    /\ nfree = 0
    /\ everStarted = FALSE
    /\ startedSince = FALSE

(* ------------------------- the child process --------------------------- *)
\* the server exits on its own (crash, out of memory, finished)
ChildExit ==
    /\ \E c \in 1 .. Len(children) :
        /\ children[c].alive
        /\ children' = [children EXCEPT ![c].alive = FALSE]
    /\ UNCHANGED <<process, port, pc, last, argPort, waitVars, torch, vram, nfree,
                   everStarted, startedSince>>

(* ---------------------------- start_server ----------------------------- *)
CallStart ==
    /\ pc = "idle"
    /\ Len(children) < MaxSpawns
    /\ \E p \in Ports : argPort' = p
    /\ pc' = "s_enter"
    /\ UNCHANGED <<process, port, children, last, waitVars, torch, vram, nfree,
                   everStarted, startedSince>>

\* variant: the handle is tested, its exit status is not polled
RunningNoPoll == process # None

\* variant: the precondition is never found violated
RunningNever == FALSE

\* a previously started process is still alive
Running == process # None /\ Poll(process)

\* variant: the port is recorded before the precondition is tested
StartServerPortFirst ==
    /\ pc = "s_enter"
    /\ port' = argPort
    /\ IF Running
       THEN /\ last' = Ret("start", "RuntimeError")
            /\ UNCHANGED <<process, children>>
       ELSE \E spawned \in BOOLEAN :
                IF spawned
                THEN /\ children' = Append(children, NewChild(argPort))
                     /\ process' = Len(children) + 1
                     /\ last' = Ret("start", "ok")
                ELSE /\ last' = Ret("start", "OSError")
                     /\ UNCHANGED <<process, children>>
    /\ argPort' = None
    /\ pc' = "idle"
    /\ everStarted' = TRUE
    /\ startedSince' = TRUE
    /\ UNCHANGED <<waitVars, torch, vram, nfree>>

StartServer ==
    /\ pc = "s_enter"
    /\ IF Running
       THEN /\ last' = Ret("start", "RuntimeError")
            /\ UNCHANGED <<process, port, children>>
       ELSE /\ port' = argPort
            /\ \E spawned \in BOOLEAN :
                IF spawned
                THEN /\ children' = Append(children, NewChild(argPort))
                     /\ process' = Len(children) + 1
                     /\ last' = Ret("start", "ok")
                ELSE /\ last' = Ret("start", "OSError")
                     /\ UNCHANGED <<process, children>>
    /\ argPort' = None
    /\ pc' = "idle"
    /\ everStarted' = TRUE
    /\ startedSince' = TRUE
    /\ UNCHANGED <<waitVars, torch, vram, nfree>>

(* --------------------------- wait_for_health --------------------------- *)
CallWait ==
    /\ pc = "idle"
    /\ \E t \in Timeouts : timeout' = t
    /\ \E r \in ReadyAfter : readyAfter' = r
    /\ pc' = "w_enter"
    /\ UNCHANGED <<process, port, children, last, argPort, url, elapsed, nreq,
                   resp, nsleep, torch, vram, nfree, everStarted, startedSince>>

\* variant: the precondition of wait_for_health is never found violated
NotStartedNever == FALSE

\* no start_server has recorded a port
NotStarted == port = None

\* the precondition, then the URL and the deadline
WaitEnter ==
    /\ pc = "w_enter"
    /\ IF NotStarted
       THEN /\ last' = Ret("wait", "RuntimeError")
            /\ pc' = "w_done"
            /\ UNCHANGED url
       ELSE /\ url' = port
            /\ pc' = "w_check"
            /\ UNCHANGED last
    /\ UNCHANGED <<process, port, children, argPort, timeout, elapsed, nreq,
                   resp, nsleep, readyAfter, torch, vram, nfree, everStarted,
                   startedSince>>

\* variant: the loop also polls the child and gives up once it has exited
WaitCheckPollsChild ==
    /\ pc = "w_check"
    /\ IF process # None /\ ~Poll(process)
       THEN /\ last' = Ret("wait", "RuntimeError")
            /\ pc' = "w_done"
       ELSE IF elapsed < timeout
       THEN /\ pc' = "w_get"
            /\ UNCHANGED last
       ELSE /\ last' = Ret("wait", "HealthTimeout")
            /\ pc' = "w_done"
    /\ UNCHANGED <<process, port, children, argPort, waitVars, torch, vram, nfree,
                   everStarted, startedSince>>

\* while time.monotonic() < deadline, else raise VLLMServerHealthTimeout
WaitCheck ==
    /\ pc = "w_check"
    /\ IF elapsed < timeout
       THEN /\ pc' = "w_get"
            /\ UNCHANGED last
       ELSE /\ last' = Ret("wait", "HealthTimeout")
            /\ pc' = "w_done"
    /\ UNCHANGED <<process, port, children, argPort, waitVars, torch, vram, nfree,
                   everStarted, startedSince>>

\* what the endpoint may do with the next request
Answers ==
    IF readyAfter # Never /\ nreq >= readyAfter
    THEN {"200"}
    ELSE {"non200", "ConnectionError", "ReadTimeout"}

\* seconds a request with that outcome may take
Durations(o) ==
    IF o = "ReadTimeout" THEN {RequestTimeout} ELSE 0 .. RequestTimeout

\* the exceptions of requests.get that the except clause catches
Caught(o) == o = "ConnectionError"

\* variant: every response counts as healthy, whatever its status
HealthyAnyStatus(o) == o \in {"200", "non200"}

\* resp.status_code == 200
Healthy(o) == o = "200"

\* one pass through the try statement
WaitGet ==
    /\ pc = "w_get"
    /\ \E o \in Answers : \E d \in Durations(o) :
        /\ resp' = o
        /\ nreq' = nreq + 1
        /\ elapsed' = elapsed + d
        /\ IF Healthy(o)
           THEN /\ last' = Ret("wait", "ok")
                /\ pc' = "w_done"
           ELSE IF o = "non200" \/ Caught(o)
           THEN /\ pc' = "w_sleep"
                /\ UNCHANGED last
           ELSE /\ last' = Ret("wait", o)
                /\ pc' = "w_done"
    /\ UNCHANGED <<process, port, children, argPort, timeout, url, nsleep,
                   readyAfter, torch, vram, nfree, everStarted, startedSince>>

WaitSleep ==
    /\ pc = "w_sleep"
    /\ \E j \in 0 .. MaxJitter : elapsed' = elapsed + PollInterval + j
    /\ nsleep' = nsleep + 1
    /\ pc' = "w_check"
    /\ UNCHANGED <<process, port, children, last, argPort, timeout, url, nreq,
                   resp, readyAfter, torch, vram, nfree, everStarted, startedSince>>

\* wait_for_health has returned or raised; its frame is discarded
WaitReturn ==
    /\ pc = "w_done"
    /\ timeout' = 0
    /\ url' = None
    /\ elapsed' = 0
    /\ nreq' = 0
    /\ resp' = "none"
    /\ nsleep' = 0
    /\ readyAfter' = Never
    /\ pc' = "idle"
    /\ UNCHANGED <<process, port, children, last, argPort, torch, vram, nfree,
                   everStarted, startedSince>>

(* ------------------------------ terminate ------------------------------ *)
CallTerminate ==
    /\ pc = "idle"
    /\ pc' = "t_enter"
    /\ nfree' = 0
    /\ vram' = "none"
    /\ startedSince' = FALSE
    /\ UNCHANGED <<process, port, children, last, argPort, waitVars, torch,
                   everStarted>>

\* variant: the test of the exit status is inverted
StoppedInverted == process = None \/ Poll(process)

\* nothing to stop: no process is tracked, or it has already exited
Stopped == process = None \/ ~Poll(process)

\* variant: the handle is polled without the test for None
TerminateEnterNoneUnchecked ==
    /\ pc = "t_enter"
    /\ IF process = None
       THEN /\ last' = Ret("terminate", "AttributeError")
            /\ pc' = "idle"
       ELSE /\ pc' = IF ~Poll(process) THEN "t_free" ELSE "t_sigterm"
            /\ UNCHANGED last
    /\ UNCHANGED <<process, port, children, argPort, waitVars, torch, vram, nfree,
                   everStarted, startedSince>>

\* variant: the early return leaves without the memory release
TerminateEnterNoRelease ==
    /\ pc = "t_enter"
    /\ IF Stopped
       THEN /\ last' = Ret("terminate", "ok")
            /\ pc' = "idle"
       ELSE /\ pc' = "t_sigterm"
            /\ UNCHANGED last
    /\ UNCHANGED <<process, port, children, argPort, waitVars, torch, vram,
                   nfree, everStarted, startedSince>>

TerminateEnter ==
    /\ pc = "t_enter"
    /\ IF Stopped
       THEN pc' = "t_free"
       ELSE pc' = "t_sigterm"
    /\ UNCHANGED <<process, port, children, last, argPort, waitVars, torch, vram,
                   nfree, everStarted, startedSince>>

\* Popen.send_signal polls first and signals only a child that has not exited
SendSignal(h, sig) ==
    IF children[h].alive
    THEN [children EXCEPT ![h][sig] = @ + 1]
    ELSE children

\* variant: the first signal sent is the kill signal
TerminateSigtermKills ==
    /\ pc = "t_sigterm"
    /\ children' = SendSignal(process, "sigkill")
    /\ pc' = "t_wait"
    /\ UNCHANGED <<process, port, last, argPort, waitVars, torch, vram, nfree,
                   everStarted, startedSince>>

TerminateSigterm ==
    /\ pc = "t_sigterm"
    /\ children' = SendSignal(process, "sigterm")
    /\ pc' = "t_wait"
    /\ UNCHANGED <<process, port, last, argPort, waitVars, torch, vram, nfree,
                   everStarted, startedSince>>

\* variant: an expired wait is passed over, the child is not killed
TerminateWaitNoKill ==
    /\ pc = "t_wait"
    /\ \/ /\ children' = [children EXCEPT ![process].alive = FALSE]
          /\ pc' = "t_clear"
       \/ /\ children[process].alive
          /\ pc' = "t_clear"
          /\ UNCHANGED children
    /\ UNCHANGED <<process, port, last, argPort, waitVars, torch, vram, nfree,
                   everStarted, startedSince>>

\* wait(timeout=5): the child exits within 5 seconds, or TimeoutExpired
TerminateWait ==
    /\ pc = "t_wait"
    /\ \/ /\ children' = [children EXCEPT ![process].alive = FALSE]
          /\ pc' = "t_clear"
       \/ /\ children[process].alive
          /\ pc' = "t_kill"
          /\ UNCHANGED children
    /\ UNCHANGED <<process, port, last, argPort, waitVars, torch, vram, nfree,
                   everStarted, startedSince>>

TerminateKill ==
    /\ pc = "t_kill"
    /\ children' = SendSignal(process, "sigkill")
    /\ pc' = "t_reap"
    /\ UNCHANGED <<process, port, last, argPort, waitVars, torch, vram, nfree,
                   everStarted, startedSince>>

\* wait() with no timeout returns once the child has exited
TerminateReap ==
    /\ pc = "t_reap"
    /\ children' = [children EXCEPT ![process].alive = FALSE]
    /\ pc' = "t_clear"
    /\ UNCHANGED <<process, port, last, argPort, waitVars, torch, vram, nfree,
                   everStarted, startedSince>>

TerminateClear ==
    /\ pc = "t_clear"
    /\ process' = None
    /\ port' = None
    /\ pc' = "t_free"
    /\ UNCHANGED <<children, last, argPort, waitVars, torch, vram, nfree, everStarted,
                   startedSince>>

\* gc.collect() always runs; the cache is flushed when torch imports and
\* CUDA is available; a missing torch (ImportError) is passed over
Released(t) == IF t = "cuda" THEN "flushed" ELSE "gc"

\* _free_vram, then terminate returns
FreeVram ==
    /\ pc = "t_free"
    /\ nfree' = nfree + 1
    /\ vram' = Released(torch)
    /\ last' = Ret("terminate", "ok")
    /\ pc' = "idle"
    /\ UNCHANGED <<process, port, children, argPort, waitVars, torch,
                   everStarted, startedSince>>

Next ==
    \/ ChildExit
    \/ CallStart
    \/ StartServer
    \/ CallWait
    \/ WaitEnter
    \/ WaitCheck
    \/ WaitGet
    \/ WaitSleep
    \/ WaitReturn
    \/ CallTerminate
    \/ TerminateEnter
    \/ TerminateSigterm
    \/ TerminateWait
    \/ TerminateKill
    \/ TerminateReap
    \/ TerminateClear
    \/ FreeVram

Spec == Init /\ [][Next]_vars

\* wait_for_health is a blocking loop of the calling thread: each of its
\* steps is taken once it is due (the request completes, the sleep ends)
FairSpec ==
    /\ Spec
    /\ WF_vars(WaitEnter)
    /\ WF_vars(WaitCheck)
    /\ WF_vars(WaitGet)
    /\ WF_vars(WaitSleep)

(* ------------------- the harness, test_vllm_server --------------------- *)
\* try: start_server on a fresh manager
HarnessCallStart == last.op = "none" /\ CallStart

\* wait_for_health, reached when start_server returned normally
HarnessCallWait == last = Ret("start", "ok") /\ CallWait

\* finally: terminate, after wait_for_health returned or either call raised
HarnessCallTerminate ==
    /\ \/ last.op = "wait"
       \/ last.op = "start" /\ last.res # "ok"
    /\ CallTerminate

HarnessNext ==
    \/ ChildExit
    \/ HarnessCallStart
    \/ StartServer
    \/ HarnessCallWait
    \/ WaitEnter
    \/ WaitCheck
    \/ WaitGet
    \/ WaitSleep
    \/ WaitReturn
    \/ HarnessCallTerminate
    \/ TerminateEnter
    \/ TerminateSigterm
    \/ TerminateWait
    \/ TerminateKill
    \/ TerminateReap
    \/ TerminateClear
    \/ FreeVram

HarnessSpec == Init /\ [][HarnessNext]_vars

TypeOK ==
    /\ process \in 0 .. MaxSpawns
    /\ port \in Ports \cup {None}
    /\ Len(children) <= MaxSpawns
    /\ pc \in {"idle", "s_enter", "w_enter", "w_check", "w_get", "w_sleep",
               "w_done", "t_enter", "t_sigterm", "t_wait", "t_kill", "t_reap",
               "t_clear", "t_free"}

(* ======================================================================= *)
(* Properties                                                              *)
(* ======================================================================= *)
StartReturns == pc = "s_enter" /\ pc' = "idle"

Signals(c) == <<children[c].sigterm, children[c].sigkill>>

Alive == {c \in 1 .. Len(children) : children[c].alive}

TermPcs == {"t_enter", "t_sigterm", "t_wait", "t_kill", "t_reap", "t_clear",
            "t_free"}

\* C1: when a call to terminate returns, the child handle is empty and the
\* port is empty, whatever the state the call started from: never started,
\* child running, child already exited, already terminated (stated for these
\* states, in which the handle and the port are both set or both empty).
C1_TerminateClearsFields ==
    [][(pc = "t_free" /\ pc' = "idle" /\ (process = None <=> port = None)) =>
        (process' = None /\ port' = None)]_vars

\* C2 as stated: a start_server that follows an earlier start_server with no
\* terminate call between the two raises the usage error (stated for the
\* calls that find the handle of a child spawned by the earlier one).
C2_SecondStartRaises ==
    [][(StartReturns /\ startedSince /\ process # None) =>
        last'.res = "RuntimeError"]_vars

\* C2 as amended: such a second start_server raises the usage error exactly
\* when the tracked child is still alive at the call; when that child has
\* exited, or no child was spawned, it does not raise it.
C2_SecondStartRaisesIffAlive ==
    [][(StartReturns /\ startedSince) =>
        /\ last'.op = "start"
        /\ last'.res = "RuntimeError" <=> (process # None /\ children[process].alive)
      ]_vars

C2_Witness ==
    /\ pc = "idle"
    /\ last = Ret("start", "RuntimeError")
    /\ startedSince
    /\ Len(children) = 1

\* C3: start_server called while the started child is alive raises the usage
\* error, spawns nothing, signals nothing and leaves handle and port as they
\* were.
C3_NoSilentRestart ==
    [][(StartReturns /\ process # None /\ children[process].alive) =>
        /\ last' = Ret("start", "RuntimeError")
        /\ UNCHANGED <<process, port, children>>
      ]_vars

C3_Witness ==
    /\ pc = "idle"
    /\ last = Ret("start", "RuntimeError")
    /\ process # None
    /\ children[process].alive
    /\ Signals(process) = <<0, 0>>
    /\ port = children[process].port

\* C4: a start_server that immediately follows a returned terminate never
\* raises the usage error; the only way it can fail is the operating system
\* refusing the spawn, and otherwise it spawns exactly one child, the handle
\* refers to that child and the port is the port argument.
C4_StartAfterTerminate ==
    [][(StartReturns /\ last.op = "terminate") =>
        /\ last' \in {Ret("start", "ok"), Ret("start", "OSError")}
        /\ port' = argPort
        /\ last'.res = "ok" =>
            /\ children' = Append(children, NewChild(argPort))
            /\ process' = Len(children')
            /\ Alive' = {process'}
      ]_vars

C4_Witness ==
    /\ pc = "idle"
    /\ last = Ret("start", "ok")
    /\ Len(children) = 2
    /\ process = 2
    /\ Signals(1) = <<1, 1>>
    /\ port # children[1].port

\* C5: while start_server has never run, however many terminate calls were
\* made, wait_for_health raises the usage error at once: it issues no
\* request, never sleeps and lets no time pass.
C5_WaitBeforeStart ==
    ~everStarted =>
        /\ pc \notin {"w_check", "w_get", "w_sleep"}
        /\ pc = "w_done" =>
            /\ last = Ret("wait", "RuntimeError")
            /\ nreq = 0
            /\ nsleep = 0
            /\ elapsed = 0

C5_Witness ==
    /\ ~everStarted
    /\ pc = "w_done"
    /\ last = Ret("wait", "RuntimeError")
    /\ nfree = 1

\* a wait_for_health that passed its precondition has ended
WaitOver == pc = "w_done" /\ url # None

\* the same, on a supervisor that tracks a child it spawned
WaitOverStarted == WaitOver /\ process # None

\* C6: every outcome of a health poll other than a 200 response is swallowed
\* and followed by a sleep and another poll, so that once a port is recorded
\* wait_for_health can only return normally or raise HealthTimeout.
C6_OnlyReturnOrHealthTimeout ==
    /\ WaitOverStarted => last.res \in {"ok", "HealthTimeout"}
    /\ (pc \in {"w_sleep", "w_check", "w_get"} /\ nreq > 0) => resp # "200"

\* C7 as stated: with an endpoint that answers non-200 or refuses the
\* connection for the first N polls and 200 afterwards, and a timeout larger
\* than 2*N seconds, wait_for_health returns normally after exactly N sleeps
\* and N+1 requests.
C7_ReadyAfterN ==
    (WaitOverStarted /\ readyAfter # Never /\ resp # "ReadTimeout"
                     /\ timeout > PollInterval * readyAfter) =>
        /\ last = Ret("wait", "ok")
        /\ nsleep = readyAfter
        /\ nreq = readyAfter + 1

\* C7 as amended: with such an endpoint wait_for_health returns normally after
\* exactly N sleeps and N+1 requests, and issues no request after the first
\* 200, provided less than timeout seconds have passed at each of its first
\* N+1 deadline tests; otherwise it raises HealthTimeout at the first test
\* that finds timeout seconds or more elapsed, after at most N requests each
\* followed by one sleep.  A timeout larger than 2*N is necessary for the
\* normal return, not sufficient.
C7_ReadyAfterNInTime ==
    /\ (WaitOver /\ readyAfter # Never /\ resp # "ReadTimeout") =>
        \/ /\ last = Ret("wait", "ok")
           /\ resp = "200"
           /\ nsleep = readyAfter
           /\ nreq = readyAfter + 1
           /\ timeout > PollInterval * readyAfter
        \/ /\ last = Ret("wait", "HealthTimeout")
           /\ elapsed >= timeout
           /\ nreq <= readyAfter
           /\ nsleep = nreq
    /\ resp = "200" => (pc = "w_done" /\ last = Ret("wait", "ok"))

C7_Witness ==
    /\ WaitOver
    /\ last = Ret("wait", "ok")
    /\ readyAfter = 2
    /\ nsleep = 2
    /\ nreq = 3

\* C8: with an endpoint that never returns 200, wait_for_health(timeout=T)
\* raises HealthTimeout, not before T seconds have elapsed since the call
\* began, and never returns normally.
C8_NeverReadyTimesOut ==
    (WaitOverStarted /\ readyAfter = Never) =>
        /\ last = Ret("wait", "HealthTimeout")
        /\ elapsed >= timeout

\* C9: a terminate that immediately follows a returned terminate raises
\* nothing, sends neither signal, waits on no process and leaves the handle
\* and the port as the first call left them.
C9_SecondTerminateNoOp ==
    [][(last.op = "terminate" /\ pc \in TermPcs) =>
        /\ pc \in {"t_enter", "t_free"}
        /\ UNCHANGED <<process, port>>
        /\ \A c \in 1 .. Len(children) : Signals(c)' = Signals(c)
        /\ pc' = "idle" => last' = Ret("terminate", "ok")
      ]_vars

C9_Witness ==
    /\ pc = "t_free"
    /\ last = Ret("terminate", "ok")
    /\ nfree = 0
    /\ process # None
    /\ ~children[process].alive

\* C10: terminate on a supervisor on which start_server never ran ends
\* without error, sends no signal and waits on nothing, and leaves the handle
\* and the port empty.
C10_TerminateNeverStarted ==
    ~everStarted =>
        /\ process = None
        /\ port = None
        /\ children = <<>>
        /\ pc \in TermPcs => pc \in {"t_enter", "t_free"}
        /\ last.op = "terminate" => last.res = "ok"

C10_Witness ==
    /\ ~everStarted
    /\ pc = "idle"
    /\ last = Ret("terminate", "ok")
    /\ nfree = 1
    /\ process = None
    /\ port = None

\* the positions of terminate between the early-return test and the release
StopPcs == {"t_sigterm", "t_wait", "t_kill", "t_reap", "t_clear"}

\* C11: every terminate runs the memory release exactly once, on the early
\* return as on the paths that stop a child, and returns only through it; on
\* the paths that stop a child the release comes after the child has exited
\* and both fields have been cleared; without the accelerator runtime the
\* release flushes nothing and terminate still returns normally.
C11_ReleaseOncePerTerminate ==
    [][/\ pc \in TermPcs => (nfree = 0 /\ vram = "none")
       /\ (pc \in TermPcs /\ pc' = "idle") =>
            /\ pc = "t_free"
            /\ nfree' = 1
            /\ last' = Ret("terminate", "ok")
            /\ vram' \in {"gc", "flushed"}
            /\ torch = "absent" => vram' = "gc"
       /\ (pc \in StopPcs /\ pc' \notin StopPcs) =>
            /\ pc' = "t_free"
            /\ ~children[process].alive
            /\ process' = None
            /\ port' = None
       /\ (pc = "idle" /\ pc' = "idle") => nfree' = nfree
      ]_vars

C11_Witness ==
    /\ pc = "idle"
    /\ last = Ret("terminate", "ok")
    /\ nfree = 1
    /\ torch = "absent"
    /\ vram = "gc"
    /\ process = None
    /\ \E c \in 1 .. Len(children) : Signals(c) = <<1, 1>>

\* C12: within one terminate the kill signal is sent only to a child that got
\* the graceful signal and was still alive when the 5-second wait expired; a
\* child that exits within the wait gets no kill signal; the fields are
\* cleared, and the supervisor is idle again, only once the child has exited;
\* the kill position is entered from the wait position and from nowhere else.
C12_EscalationOrdered ==
    [][/\ \A c \in 1 .. Len(children) :
            /\ children[c].sigkill <= children[c].sigterm
            /\ children[c].sigterm <= 1
            /\ children'[c].sigkill # children[c].sigkill =>
                /\ pc = "t_kill"
                /\ c = process
                /\ children[c].alive
                /\ children[c].sigterm = 1
       /\ (pc' = "t_kill" /\ pc # "t_kill") =>
            /\ pc = "t_wait"
            /\ children[process].alive
            /\ children[process].sigterm = 1
       /\ (pc = "t_wait" /\ pc' = "t_clear") =>
            /\ ~children'[process].alive
            /\ children'[process].sigkill = 0
       /\ (pc = "t_clear" /\ pc' # "t_clear") => ~children[process].alive
       /\ (pc \in StopPcs /\ process' = None) => pc = "t_clear"
      ]_vars

C12_Witness ==
    /\ pc = "t_clear"
    /\ Signals(process) = <<1, 1>>
    /\ ~children[process].alive

\* the harness has no call left to make
HarnessOver ==
    /\ pc = "idle"
    /\ ~ENABLED (HarnessCallStart \/ HarnessCallWait \/ HarnessCallTerminate)

\* whenever terminate has returned, no spawned process is alive
NoChildOutlivesTerminate ==
    (pc = "idle" /\ last.op = "terminate") => Alive = {}

\* C13: no child outlives a terminate, whether it exits on the graceful
\* signal, ignores it or had already exited; and in the harness (start_server,
\* wait_for_health, finally terminate) terminate runs on every path, also when
\* start_server or wait_for_health raises, so that the harness ends only after
\* a terminate has returned and with no live child.
C13_HarnessLeavesNoChild ==
    /\ NoChildOutlivesTerminate
    /\ HarnessOver => (last = Ret("terminate", "ok") /\ Alive = {})

C13_Witness ==
    /\ HarnessOver
    /\ last = Ret("terminate", "ok")
    /\ Len(children) = 1
    /\ Signals(1) = <<1, 1>>

\* C14: at most one spawned child is alive at any time, and a live child is
\* the one the handle refers to.
C14_OneLiveChild ==
    /\ Cardinality(Alive) <= 1
    /\ Alive # {} => (process # None /\ Alive = {process})

C14_Witness ==
    /\ Len(children) = 2
    /\ process = 2
    /\ Alive = {2}
    /\ pc = "w_get"

WaitPcs == {"w_enter", "w_check", "w_get", "w_sleep", "w_done"}

\* a wait_for_health has ended whose endpoint only refused or answered
\* non-200 and whose child has exited
WaitOverChildExited ==
    /\ WaitOver
    /\ process # None
    /\ ~children[process].alive
    /\ readyAfter = Never
    /\ resp # "ReadTimeout"

\* C15: wait_for_health changes neither the handle nor the port on any path,
\* sends no signal and spawns nothing; its outcome does not depend on the
\* child: when the child has exited and the endpoint only refuses or answers
\* non-200, it polls on until the deadline and raises HealthTimeout, with one
\* sleep after every request.
C15_WaitIsSideQuery ==
    [][(pc \in WaitPcs) =>
        /\ UNCHANGED <<process, port>>
        /\ Len(children') = Len(children)
        /\ \A c \in 1 .. Len(children) : Signals(c)' = Signals(c)
        /\ WaitOverChildExited =>
            /\ last = Ret("wait", "HealthTimeout")
            /\ elapsed >= timeout
            /\ nsleep = nreq
      ]_vars

C15_Witness ==
    /\ WaitOver
    /\ last = Ret("wait", "HealthTimeout")
    /\ process # None
    /\ ~children[process].alive
    /\ nreq = 2
    /\ nsleep = 2

\* C16: every wait_for_health call that passed its precondition ends: as its
\* requests complete and time advances, it eventually returns normally or
\* raises HealthTimeout, whatever the endpoint and the child do (stated for
\* a supervisor that tracks a child it spawned).
C16_WaitEndsOkOrTimeout ==
    (pc = "w_check" /\ process # None) ~>
        (pc = "w_done" /\ last.res \in {"ok", "HealthTimeout"})

\* the call ends, in whatever way
WaitEnds == (pc = "w_check") ~> (pc = "w_done")

\* C17: between operations the handle is empty exactly when the port is
\* empty; a start_server that fails, by the usage error or by the spawn
\* failing, leaves both fields as they were; wait_for_health raises the usage
\* error exactly when no handle is tracked.
C17_FieldsChangeTogether ==
    [][/\ pc = "idle" => (process = None <=> port = None)
       /\ (StartReturns /\ last'.res # "ok") => UNCHANGED <<process, port>>
       /\ (pc = "w_enter" /\ pc' # "w_enter") =>
            (last' = Ret("wait", "RuntimeError") <=> process = None)
      ]_vars

\* C18: a health request is started only while less than timeout seconds have
\* elapsed since the call began; with timeout <= 0 the call raises
\* HealthTimeout without any request; every request targets the port recorded
\* by the most recent start_server that succeeded.
C18_DeadlineGatesEveryPoll ==
    /\ pc = "w_get" => elapsed < timeout
    /\ (pc \in WaitPcs /\ timeout <= 0) => nreq = 0
    /\ (WaitOver /\ timeout <= 0) => last = Ret("wait", "HealthTimeout")
    /\ (pc = "w_get" \/ nreq > 0) =>
        /\ children # <<>>
        /\ url = children[Len(children)].port
====
